---------------------------- MODULE Spec2Model ----------------------------
(***************************************************************************)
(* Thermo-Track: the Raspberry Pi control programs.                        *)
(*                                                                         *)
(*   listener  src/src/core/pi_command_listener.py  (command callback +    *)
(*             automatic fan loop, two threads)                            *)
(*   monitor   src/src/core/sensor_logic.py         (SmartHomeMonitor)     *)
(*   motion    src/src/core/motion/motion_service.py + src/src/run_motion  *)
(*   hw        src/src/core/hardware_controller.py  (HardwareController)   *)
(*   logger    src/src/core/dht22/dht22_logger.py   (main)                 *)
(*   policy    the automatic fan policies of listener, monitor and hw,     *)
(*             each applied to one reading                                 *)
(*   readings  the same policies on readings whose temperature may be      *)
(*             absent                                                      *)
(*   threads   the request, timer and cleanup threads of the web           *)
(*             application on the HardwareController's buzzer              *)
(*   web       src/src/web/app.py  (user-management and hardware routes)   *)
(*   and the dispatch of src/src/core/pubnub_subscriber.py                 *)
(*                                                                         *)
(* One program runs per behaviour (prog).  Time is a tick counter, with    *)
(* TicksPerSec ticks in a second; any statement may take time, a sleep     *)
(* takes at least its duration.  Temperatures are in tenths of a degree.   *)
(***************************************************************************)
EXTENDS Integers, Sequences, FiniteSets, TLC

VARIABLES
    prog,               \* which program this behaviour runs
    now,                \* time.time(), in ticks
    gpio,               \* the GPIO module: "rpi" | "mock" | "none"
    gpio_setup,         \* the output channels are set up (FALSE after GPIO.cleanup())
    fan_pin, buzzer_pin, led_pin,   \* output levels
    exc,                \* the exception propagating in the main thread, or None
    outbox,             \* payloads handed to publish_data in the current cycle / operation
    pir,                \* the PIR sensor's level (environment)
    starts_in_high,     \* occupied=1 events published since pir last was LOW
    auto_strobe,        \* flips at every GPIO.output(FAN_PIN) of an automatic policy
    cleaned,            \* the program's cleanup has run
    \* ---- pi_command_listener.py
    AUTO_MODE, LAST_MANUAL,
    l_pc, l_wake,       \* auto_fan_controller: position, end of time.sleep
    h_pc, h_cmd,        \* handle_command: position, cmd of the message being handled
    \* ---- sensor_logic.py, SmartHomeMonitor
    m_pc, m_wake,       \* run(): position, end of time.sleep
    dht_device,         \* self.dht_device is not None
    dht_inited,         \* _setup_dht created the device
    dht_hw,             \* what the DHT22 answers in this cycle (environment)
    ts, temp_c, humidity, motion_detected,   \* locals of run()
    last_motion_state, last_motion_time,
    last_occupied,      \* occupied of the motion event run() published last, or absent
    \* ---- motion_service.py, MotionService, run by run_motion.py
    s_pc, s_wake,       \* main()/run(): position, end of time.sleep
    exit_status,        \* exit status of the run_motion.py process, once it has ended
    \* ---- hardware_controller.py, HardwareController
    current_preset, fan_auto_mode, temp_threshold, fan_state, buzzer_state,
    buzzer_timer,       \* self._buzzer_timer: "none" | "alive" | "done" | "cancelled"
    pubnub_import,      \* `from pubnub_client import publish_data` succeeds
    hw_op,              \* the method called last
    hw_ops,             \* number of calls made
    \* ---- the automatic fan policies, applied to one reading
    pol_temp,           \* the reading, in tenths of a degree
    pol_impl,           \* the implementation applied last, or None
    pol_fan,            \* the fan level it asked for
    pol_reading,        \* the temperature of the reading applied last, or absent
    \* ---- dht22_logger.py
    g_pc, g_wake,       \* main(): position, end of time.sleep
    g_dht,              \* init_dht_device(): "real" | "dummy"
    g_writer,           \* ensure_csv() gave a writer
    g_answer,           \* what the sensor answers in this cycle (environment)
    t_c, h,             \* locals of main()
    \* ---- the threads of the web application on the buzzer
    r_pc,               \* request threads: position in set_buzzer_state / buzzer_beep
    timers,             \* the Timer objects created so far, each with its state
    cur_timer,          \* the one self._buzzer_timer refers to, 0 for None
    c_pc,               \* the thread running cleanup(): position
    late_write,         \* a GPIO.output call was made after GPIO.cleanup()
    \* ---- web/app.py
    users,              \* table users: the role of each user id, None for no row
    session_role,       \* session["role"] of each user's session, set at login
    deleted_by,         \* the session role of the request that deleted the row
    web_req             \* the session whose request was served last

commonVars   == <<prog, now, gpio, gpio_setup, fan_pin, buzzer_pin, led_pin, exc,
                  outbox, pir, starts_in_high, auto_strobe, cleaned>>
listenerVars == <<AUTO_MODE, LAST_MANUAL, l_pc, l_wake, h_pc, h_cmd>>
monitorVars  == <<m_pc, m_wake, dht_device, dht_inited, dht_hw, ts, temp_c, humidity,
                  motion_detected, last_motion_state, last_motion_time, last_occupied>>
motionVars   == <<s_pc, s_wake, exit_status>>
hwVars       == <<current_preset, fan_auto_mode, temp_threshold, fan_state,
                  buzzer_state, buzzer_timer, pubnub_import, hw_op, hw_ops>>
policyVars   == <<pol_temp, pol_impl, pol_fan, pol_reading>>
loggerVars   == <<g_pc, g_wake, g_dht, g_writer, g_answer, t_c, h>>
threadVars   == <<r_pc, timers, cur_timer, c_pc, late_write>>
webVars      == <<users, session_role, deleted_by, web_req>>
extraVars    == <<policyVars, loggerVars, threadVars, webVars>>
vars         == <<commonVars, listenerVars, monitorVars, motionVars, hwVars, extraVars>>
\* what each program leaves alone
nonListenerVars == <<monitorVars, motionVars, hwVars, extraVars>>
nonMonitorVars  == <<listenerVars, motionVars, hwVars, extraVars>>
nonMotionVars   == <<listenerVars, monitorVars, hwVars, extraVars>>
nonHwVars       == <<listenerVars, monitorVars, motionVars, extraVars>>
nonPolicyVars   == <<listenerVars, monitorVars, motionVars, hwVars, loggerVars,
                     threadVars, webVars>>
nonLoggerVars   == <<listenerVars, monitorVars, motionVars, hwVars, policyVars,
                     threadVars, webVars>>
nonThreadVars   == <<listenerVars, monitorVars, motionVars, policyVars, loggerVars,
                     webVars>>
nonWebVars      == <<listenerVars, monitorVars, motionVars, policyVars, loggerVars,
                     threadVars>>

None == "None"          \* None, for names and exceptions
NoValue == <<>>         \* None, for an optional number
Some(v) == <<v>>        \* a number that is present
Val(o)  == o[1]
LOW  == 0
HIGH == 1

\* ---- bounds of the model
TicksPerSec     == 2      \* resolution of the clock
HorizonListener == 44     \* ticks the listener is followed for
HorizonMonitor  == 14     \* ticks the monitor is followed for
HorizonMotion   == 24     \* ticks the motion service is followed for
MaxJitter       == 1      \* ticks a cycle's statements may add to its sleep
MaxRequests     == 2      \* request threads of the web application
MaxTimers       == 2      \* Timer objects created in a behaviour
MaxUsers        == 2      \* rows of table users

Secs(s) == s * TicksPerSec

(***************************************************************************)
(* pi_command_listener.py                                                  *)
(***************************************************************************)
AUTO_THRESHOLD == 240     \* 24 C
MANUAL_TIMEOUT == 20      \* seconds
LOOP_SLEEP     == 3       \* seconds

\* read_temperature(): the placeholder reading, 23.5 C
read_temperature == Some(235)

FanOnCmds     == {"fan_on", "Fan On", "FAN_ON"}
FanOffCmds    == {"fan_off", "Fan Off", "FAN_OFF"}
BuzzerOnCmds  == {"buzzer_on", "Buzzer On", "BUZZER_ON"}
BuzzerOffCmds == {"buzzer_off", "Buzzer Off", "BUZZER_OFF"}
Vocabulary    == FanOnCmds \cup FanOffCmds \cup BuzzerOnCmds \cup BuzzerOffCmds

\* msg.get("cmd") of the messages that arrive on the channel: commands, a
\* command of another vocabulary, and telemetry (no cmd)
Messages == {"fan_on", "FAN_OFF", "Buzzer On", "buzzer_off", "auto_on", None}

\* time.time() when a program starts: beyond every timeout of the programs
StartTime == Secs(MANUAL_TIMEOUT) + 1

ListenerRunning == prog = "listener" /\ l_pc # "done"

\* the PubNub thread calls Listener.message -> handle_command(msg)
Deliver ==
    /\ ListenerRunning /\ l_pc # "subscribe"
    /\ h_pc = "idle"
    /\ \E c \in Messages : h_cmd' = c
    /\ h_pc' = "stamp"
    /\ UNCHANGED <<commonVars, nonListenerVars, AUTO_MODE, LAST_MANUAL, l_pc, l_wake>>

\* LAST_MANUAL = time.time()
HandleStamp ==
    /\ ListenerRunning /\ h_pc = "stamp"
    /\ LAST_MANUAL' = now
    /\ h_pc' = "pause"
    /\ UNCHANGED <<commonVars, nonListenerVars, AUTO_MODE, l_pc, l_wake, h_cmd>>

\* AUTO_MODE = False
HandlePause ==
    /\ ListenerRunning /\ h_pc = "pause"
    /\ AUTO_MODE' = FALSE
    /\ h_pc' = "dispatch"
    /\ UNCHANGED <<commonVars, nonListenerVars, LAST_MANUAL, l_pc, l_wake, h_cmd>>

\* a handler that only notes the command and leaves the outputs to the loop
HandleDispatchDeferred ==
    /\ ListenerRunning /\ h_pc = "dispatch"
    /\ h_pc' = "idle"
    /\ UNCHANGED <<commonVars, nonListenerVars, AUTO_MODE, LAST_MANUAL, l_pc, l_wake, h_cmd>>

\* the if/elif chain on cmd
HandleDispatch ==
    /\ ListenerRunning /\ h_pc = "dispatch"
    /\ fan_pin' = IF h_cmd \in FanOnCmds THEN HIGH
                  ELSE IF h_cmd \in FanOffCmds THEN LOW ELSE fan_pin
    /\ buzzer_pin' = IF h_cmd \in FanOnCmds \cup FanOffCmds THEN buzzer_pin
                     ELSE IF h_cmd \in BuzzerOnCmds THEN HIGH
                     ELSE IF h_cmd \in BuzzerOffCmds THEN LOW ELSE buzzer_pin
    /\ h_pc' = "idle"
    /\ UNCHANGED <<prog, now, gpio, gpio_setup, led_pin, exc, outbox, pir,
                   starts_in_high, auto_strobe, cleaned, nonListenerVars, AUTO_MODE, LAST_MANUAL, l_pc, l_wake, h_cmd>>

\* subscribe_to_updates(handle_command), before the try of __main__
Subscribe ==
    /\ prog = "listener" /\ l_pc = "subscribe"
    /\ l_pc' = "check"
    /\ UNCHANGED <<commonVars, nonListenerVars, AUTO_MODE, LAST_MANUAL, l_wake, h_pc, h_cmd>>

\* if time.time() - LAST_MANUAL > MANUAL_TIMEOUT
LoopCheck ==
    /\ prog = "listener" /\ l_pc = "check"
    /\ l_pc' = IF now - LAST_MANUAL > Secs(MANUAL_TIMEOUT) THEN "resume" ELSE "test"
    /\ UNCHANGED <<commonVars, nonListenerVars, AUTO_MODE, LAST_MANUAL, l_wake, h_pc, h_cmd>>

\* AUTO_MODE = True
LoopResume ==
    /\ prog = "listener" /\ l_pc = "resume"
    /\ AUTO_MODE' = TRUE
    /\ l_pc' = "test"
    /\ UNCHANGED <<commonVars, nonListenerVars, LAST_MANUAL, l_wake, h_pc, h_cmd>>

\* if AUTO_MODE: temp = read_temperature(); if temp is not None
LoopTest ==
    /\ prog = "listener" /\ l_pc = "test"
    /\ IF AUTO_MODE /\ read_temperature # NoValue
          THEN l_pc' = "write" /\ l_wake' = l_wake
          ELSE l_pc' = "sleep" /\ l_wake' = now + Secs(LOOP_SLEEP)
    /\ UNCHANGED <<commonVars, nonListenerVars, AUTO_MODE, LAST_MANUAL, h_pc, h_cmd>>

\* the level the automatic policy wants: temp >= AUTO_THRESHOLD
AutoFanLevel(temp) == IF temp >= AUTO_THRESHOLD THEN HIGH ELSE LOW

\* GPIO.output(FAN_PIN, ...) of the automatic policy, then time.sleep(3)
LoopWrite ==
    /\ prog = "listener" /\ l_pc = "write"
    /\ fan_pin' = AutoFanLevel(Val(read_temperature))
    /\ l_pc' = "sleep"
    /\ l_wake' = now + Secs(LOOP_SLEEP)
    /\ auto_strobe' = 1 - auto_strobe
    /\ UNCHANGED <<prog, now, gpio, gpio_setup, buzzer_pin, led_pin, exc, outbox, pir,
                   starts_in_high, cleaned, nonListenerVars, AUTO_MODE, LAST_MANUAL, h_pc, h_cmd>>

\* time.sleep(3) returns
LoopWake ==
    /\ prog = "listener" /\ l_pc = "sleep"
    /\ now >= l_wake
    /\ l_pc' = "check"
    /\ UNCHANGED <<commonVars, nonListenerVars, AUTO_MODE, LAST_MANUAL, l_wake, h_pc, h_cmd>>

\* Ctrl+C: KeyboardInterrupt in the main thread.  Inside the try of __main__ it
\* is caught; before it (during subscribe_to_updates) it ends the process.
ListenerInterrupt ==
    /\ ListenerRunning /\ l_pc # "cleanup"
    /\ exc' = "KeyboardInterrupt"
    /\ l_pc' = IF l_pc = "subscribe" THEN "done" ELSE "cleanup"
    /\ UNCHANGED <<prog, now, gpio, gpio_setup, fan_pin, buzzer_pin, led_pin, outbox,
                   pir, starts_in_high, auto_strobe, cleaned, nonListenerVars, AUTO_MODE, LAST_MANUAL, l_wake,
                   h_pc, h_cmd>>

\* except KeyboardInterrupt: GPIO.cleanup()
ListenerCleanup ==
    /\ prog = "listener" /\ l_pc = "cleanup"
    /\ gpio_setup' = FALSE
    /\ fan_pin' = LOW /\ buzzer_pin' = LOW /\ led_pin' = LOW
    /\ cleaned' = TRUE
    /\ exc' = None
    /\ l_pc' = "done"
    /\ UNCHANGED <<prog, now, gpio, outbox, pir, starts_in_high, auto_strobe,
                   nonListenerVars, AUTO_MODE, LAST_MANUAL, l_wake, h_pc, h_cmd>>

\* time passes while the loop sleeps; the statements between two sleeps take
\* no time on the clock's scale, and time.sleep(3) returns when it is due
ListenerTick ==
    /\ ListenerRunning
    /\ l_pc = "sleep" /\ now < l_wake
    /\ now < StartTime + HorizonListener
    /\ now' = now + 1
    /\ UNCHANGED <<prog, gpio, gpio_setup, fan_pin, buzzer_pin, led_pin, exc, outbox,
                   pir, starts_in_high, auto_strobe, cleaned, nonListenerVars, listenerVars>>

InitCommon ==
    /\ fan_pin = LOW /\ buzzer_pin = LOW /\ led_pin = LOW
    /\ exc = None
    /\ outbox = <<>>
    /\ pir = LOW
    /\ starts_in_high = 0
    /\ auto_strobe = 0
    /\ cleaned = FALSE

InitListenerVars ==
    /\ AUTO_MODE = TRUE
    /\ LAST_MANUAL = 0
    /\ l_pc = "subscribe" /\ l_wake = 0
    /\ h_pc = "idle" /\ h_cmd = None

InitMonitorVars ==
    /\ m_pc = "construct" /\ m_wake = 0
    /\ dht_device = FALSE /\ dht_inited = FALSE
    /\ dht_hw = "idle"
    /\ ts = 0 /\ temp_c = NoValue /\ humidity = NoValue
    /\ motion_detected = FALSE
    /\ last_motion_state = LOW /\ last_motion_time = 0
    /\ last_occupied = NoValue

InitMotionVars ==
    /\ s_pc = "main" /\ s_wake = 0
    /\ exit_status = NoValue

\* HardwareController.__init__
InitHwFields ==
    /\ current_preset = "comfort"
    /\ fan_auto_mode = TRUE
    /\ temp_threshold = 220
    /\ fan_state = FALSE
    /\ buzzer_state = FALSE
    /\ buzzer_timer = "none"
    /\ hw_op = None /\ hw_ops = 0

InitPolicyVars ==
    /\ pol_temp = 0 /\ pol_impl = None /\ pol_fan = LOW
    /\ pol_reading = NoValue

InitLoggerVars ==
    /\ g_pc = "init" /\ g_wake = 0
    /\ g_dht = None /\ g_writer = FALSE
    /\ g_answer = "idle"
    /\ t_c = NoValue /\ h = NoValue

InitThreadVars ==
    /\ r_pc = [r \in 1..MaxRequests |-> "idle"]
    /\ timers = <<>>
    /\ cur_timer = 0
    /\ c_pc = "idle"
    /\ late_write = FALSE

InitWebVars ==
    /\ users = [u \in 1..MaxUsers |-> "user"]
    /\ session_role = users
    /\ deleted_by = [u \in 1..MaxUsers |-> None]
    /\ web_req = [user |-> 0, role |-> None]

InitExtraVars ==
    /\ InitPolicyVars
    /\ InitLoggerVars
    /\ InitThreadVars
    /\ InitWebVars

InitHwVars ==
    /\ InitHwFields
    /\ pubnub_import = FALSE
    /\ InitExtraVars

\* the module body of pi_command_listener.py has run: GPIO set up, globals set
InitListener ==
    /\ prog = "listener"
    /\ now = StartTime
    /\ gpio = "rpi" /\ gpio_setup = TRUE
    /\ InitCommon
    /\ InitListenerVars
    /\ InitMonitorVars
    /\ InitMotionVars
    /\ InitHwVars

NextListener ==
    \/ Deliver \/ HandleStamp \/ HandlePause \/ HandleDispatch
    \/ Subscribe \/ LoopCheck \/ LoopResume \/ LoopTest \/ LoopWrite \/ LoopWake
    \/ ListenerInterrupt \/ ListenerCleanup \/ ListenerTick

SpecListener == InitListener /\ [][NextListener]_vars

(***************************************************************************)
(* sensor_logic.py: SmartHomeMonitor                                       *)
(***************************************************************************)
READ_INTERVAL_SECONDS == 1
TEMP_THRESHOLD_C      == 260    \* 26.0 C
MOTION_COOLDOWN       == 2      \* seconds

\* what the DHT22 can answer to the reads of one cycle: values, None, the
\* driver's RuntimeError (a failed transfer), another exception
DhtAnswers  == {"ok", "none", "RuntimeError", "Exception"}
SensorTemps == {255, 260, 265}
SensorHums  == {550}

\* publish_data(payload): envelope fine, envelope with an error status (printed),
\* or .sync() raising out of publish_data, which has no try
PublishOutcomes == {"ok", "error_status", "raise"}

\* round(float(x), 2), a reading in tenths as hundredths
Round2(x) == x * 10

\* int(time.time())
IntTime(t) == t \div TicksPerSec

ReadingMsg(t, hum, at) ==
    [event |-> "dht22_reading", occupied |-> NoValue,
     temperature_c |-> Some(Round2(t)), humidity |-> Some(Round2(hum)), at |-> at]
MotionMsg(occ, at) ==
    [event |-> "motion", occupied |-> Some(occ),
     temperature_c |-> NoValue, humidity |-> NoValue, at |-> at]

MonitorInLoop == m_pc \in {"top", "dht", "pir", "control", "sleep"}

\* monitor = SmartHomeMonitor(): _setup_dht, then _setup_gpio, whose GPIO calls
\* can fail on the real module; the constructor runs outside run()'s try
MonitorConstruct ==
    /\ prog = "monitor" /\ m_pc = "construct"
    /\ \E d \in BOOLEAN : dht_device' = d /\ dht_inited' = d
    /\ \/ /\ gpio_setup' = TRUE /\ m_pc' = "top" /\ exc' = exc
       \/ /\ gpio = "rpi"
          /\ gpio_setup' = FALSE /\ m_pc' = "done" /\ exc' = "RuntimeError"
    /\ UNCHANGED <<prog, now, gpio, fan_pin, buzzer_pin, led_pin, outbox, pir,
                   starts_in_high, auto_strobe, cleaned, nonMonitorVars,
                   m_wake, dht_hw, ts, temp_c, humidity, motion_detected,
                   last_motion_state, last_motion_time,
                   last_occupied>>

\* ts = int(time.time()); temp_c, humidity = None, None
MonitorTop ==
    /\ prog = "monitor" /\ m_pc = "top"
    /\ ts' = IntTime(now)
    /\ temp_c' = NoValue /\ humidity' = NoValue
    /\ motion_detected' = FALSE
    /\ outbox' = <<>>
    /\ \E a \in DhtAnswers : dht_hw' = a
    /\ m_pc' = IF dht_device THEN "dht" ELSE "pir"
    /\ UNCHANGED <<prog, now, gpio, gpio_setup, fan_pin, buzzer_pin, led_pin, exc, pir,
                   starts_in_high, auto_strobe, cleaned, nonMonitorVars,
                   m_wake, dht_device, dht_inited, last_motion_state, last_motion_time,
                   last_occupied>>

\* A. the try around the DHT22 reads and the publish of the reading
MonitorDht ==
    /\ prog = "monitor" /\ m_pc = "dht"
    /\ CASE dht_hw = "ok" ->
              \* an exception of publish_data ends in `except Exception`: printed
              \E t \in SensorTemps, hum \in SensorHums, o \in PublishOutcomes :
                  /\ temp_c' = Some(t) /\ humidity' = Some(hum)
                  /\ outbox' = Append(outbox, ReadingMsg(t, hum, ts))
                  /\ dht_device' = dht_device
         [] dht_hw = "none" ->
              /\ temp_c' = NoValue /\ humidity' = NoValue
              /\ UNCHANGED <<outbox, dht_device>>
         [] dht_hw = "RuntimeError" ->
              \* self.dht_device.exit(); self.dht_device = None
              /\ dht_device' = FALSE
              /\ UNCHANGED <<temp_c, humidity, outbox>>
         [] OTHER ->
              UNCHANGED <<temp_c, humidity, outbox, dht_device>>
    /\ m_pc' = "pir"
    /\ UNCHANGED <<prog, now, gpio, gpio_setup, fan_pin, buzzer_pin, led_pin, exc, pir,
                   starts_in_high, auto_strobe, cleaned, nonMonitorVars,
                   m_wake, dht_inited, dht_hw, ts, motion_detected,
                   last_motion_state, last_motion_time,
                   last_occupied>>

\* GPIO.input(PIR_PIN): MockGPIO.input returns 0
PirInput == IF gpio = "rpi" THEN pir ELSE LOW

\* a falling edge accepted as soon as any time has passed
CooldownOverAtOnce(t, last) == t - last > 0

\* a falling edge accepted when the cooldown has just been reached
CooldownReached(t, last) == t - last >= MOTION_COOLDOWN

\* ts - last_motion_time > MOTION_COOLDOWN
CooldownOver(t, last) == t - last > MOTION_COOLDOWN

\* a sample HIGH taken for a motion start whatever the state before
RisingLevel(current_pir_state, last) == current_pir_state = HIGH

\* current_pir_state == HIGH and last_motion_state == LOW
RisingEdge(current_pir_state, last) == current_pir_state = HIGH /\ last = LOW

\* B. the PIR sample and its edges.  The publishes here are in no inner try: an
\* exception of publish_data reaches `except Exception` of run().
MonitorPir ==
    /\ prog = "monitor" /\ m_pc = "pir"
    /\ \E o \in PublishOutcomes :
        LET failed == o = "raise" IN
        CASE RisingEdge(PirInput, last_motion_state) ->
              /\ motion_detected' = TRUE
              /\ last_occupied' = Some(1)
              /\ last_motion_state' = HIGH
              /\ last_motion_time' = ts
              /\ outbox' = Append(outbox, MotionMsg(1, ts))
              /\ starts_in_high' = starts_in_high + 1
              /\ exc' = IF failed THEN "PubNubException" ELSE exc
              /\ m_pc' = IF failed THEN "finally" ELSE "control"
          [] PirInput = LOW /\ last_motion_state = HIGH /\ CooldownOver(ts, last_motion_time) ->
              /\ last_motion_state' = LOW
              /\ outbox' = Append(outbox, MotionMsg(0, ts))
              /\ last_occupied' = Some(0)
              /\ exc' = IF failed THEN "PubNubException" ELSE exc
              /\ m_pc' = IF failed THEN "finally" ELSE "control"
              /\ UNCHANGED <<motion_detected, last_motion_time, starts_in_high>>
          [] PirInput = HIGH /\ last_motion_state = HIGH ->
              /\ motion_detected' = TRUE
              /\ m_pc' = "control"
              /\ UNCHANGED <<last_motion_state, last_motion_time, outbox,
                             starts_in_high, exc, last_occupied>>
          [] OTHER ->
              /\ m_pc' = "control"
              /\ UNCHANGED <<motion_detected, last_motion_state, last_motion_time,
                             outbox, starts_in_high, exc, last_occupied>>
    /\ UNCHANGED <<prog, now, gpio, gpio_setup, fan_pin, buzzer_pin, led_pin, pir,
                   auto_strobe, cleaned, nonMonitorVars,
                   m_wake, dht_device, dht_inited, dht_hw, ts, temp_c, humidity>>

\* the level _control_actuators writes to the fan: temp_c > TEMP_THRESHOLD_C
MonitorFanLevel(t) == IF t > TEMP_THRESHOLD_C THEN HIGH ELSE LOW

\* C. _control_actuators(temp_c, motion_detected), then D. time.sleep
MonitorControl ==
    /\ prog = "monitor" /\ m_pc = "control"
    /\ buzzer_pin' = IF motion_detected THEN HIGH ELSE LOW
    /\ led_pin' = IF motion_detected THEN HIGH ELSE LOW
    /\ IF temp_c # NoValue
          THEN /\ fan_pin' = MonitorFanLevel(Val(temp_c))
               /\ auto_strobe' = 1 - auto_strobe
          ELSE UNCHANGED <<fan_pin, auto_strobe>>
    /\ m_pc' = "sleep"
    /\ m_wake' = now + Secs(READ_INTERVAL_SECONDS)
    /\ dht_hw' = "idle"
    /\ UNCHANGED <<prog, now, gpio, gpio_setup, exc, outbox, pir, starts_in_high,
                   cleaned, nonMonitorVars, dht_device, dht_inited, ts, temp_c,
                   humidity, motion_detected, last_motion_state, last_motion_time,
                   last_occupied>>

\* time.sleep(READ_INTERVAL_SECONDS) returns
MonitorWake ==
    /\ prog = "monitor" /\ m_pc = "sleep"
    /\ now >= m_wake
    /\ m_pc' = "top"
    /\ UNCHANGED <<commonVars, nonMonitorVars, m_wake, dht_device, dht_inited, dht_hw,
                   ts, temp_c, humidity, motion_detected, last_motion_state,
                   last_motion_time, last_occupied>>

\* Ctrl+C: inside run()'s try it is caught, and `finally` follows; in the
\* constructor it ends the process
MonitorInterrupt ==
    /\ prog = "monitor" /\ (MonitorInLoop \/ m_pc = "construct")
    /\ exc' = "KeyboardInterrupt"
    /\ m_pc' = IF m_pc = "construct" THEN "done" ELSE "finally"
    /\ UNCHANGED <<prog, now, gpio, gpio_setup, fan_pin, buzzer_pin, led_pin, outbox,
                   pir, starts_in_high, auto_strobe, cleaned, nonMonitorVars,
                   m_wake, dht_device, dht_inited, dht_hw, ts, temp_c, humidity,
                   motion_detected, last_motion_state, last_motion_time,
                   last_occupied>>

\* finally: self.cleanup(): GPIO.cleanup() releases the channels (no output is
\* driven any more), dht_device.exit()
MonitorCleanup ==
    /\ prog = "monitor" /\ m_pc = "finally"
    /\ gpio_setup' = FALSE
    /\ fan_pin' = LOW /\ buzzer_pin' = LOW /\ led_pin' = LOW
    /\ cleaned' = TRUE
    /\ m_pc' = "done"
    /\ UNCHANGED <<prog, now, gpio, exc, outbox, pir, starts_in_high, auto_strobe,
                   nonMonitorVars, m_wake, dht_device, dht_inited, dht_hw, ts, temp_c,
                   humidity, motion_detected, last_motion_state, last_motion_time,
                   last_occupied>>

\* time passes while run() sleeps; the statements of a cycle add at most
\* MaxJitter ticks to it
MonitorTick ==
    /\ prog = "monitor" /\ m_pc = "sleep"
    /\ now < m_wake + MaxJitter
    /\ now < StartTime + HorizonMonitor
    /\ now' = now + 1
    /\ UNCHANGED <<prog, gpio, gpio_setup, fan_pin, buzzer_pin, led_pin, exc, outbox,
                   pir, starts_in_high, auto_strobe, cleaned, nonMonitorVars, monitorVars>>

\* the PIR output changes level between two samples
PirChange ==
    /\ prog = "monitor" /\ m_pc = "sleep"
    /\ gpio = "rpi"
    /\ pir' = 1 - pir
    /\ starts_in_high' = IF pir = HIGH THEN 0 ELSE starts_in_high
    /\ UNCHANGED <<prog, now, gpio, gpio_setup, fan_pin, buzzer_pin, led_pin, exc,
                   outbox, auto_strobe, cleaned, nonMonitorVars, monitorVars>>

InitMonitor ==
    /\ prog = "monitor"
    /\ now = StartTime
    /\ gpio \in {"rpi", "mock"} /\ gpio_setup = FALSE
    /\ InitCommon
    /\ InitListenerVars
    /\ InitMonitorVars
    /\ InitMotionVars
    /\ InitHwVars

NextMonitor ==
    \/ MonitorConstruct \/ MonitorTop \/ MonitorDht \/ MonitorPir \/ MonitorControl
    \/ MonitorWake \/ MonitorInterrupt \/ MonitorCleanup \/ MonitorTick \/ PirChange

SpecMonitor == InitMonitor /\ [][NextMonitor]_vars

(***************************************************************************)
(* SmartHomeMonitor.run() on a scripted PIR input: the cycles are exactly  *)
(* READ_INTERVAL_SECONDS apart and the PIR shows ScenarioLevels, one level *)
(* per cycle, then stays LOW.                                              *)
(***************************************************************************)
ScenarioLevels == <<LOW, HIGH, HIGH, LOW, LOW, LOW>>

\* the number of the sample taken in the cycle stamped t
SampleNo(t) == t - IntTime(StartTime) + 1

ScenarioLevel(t) ==
    IF SampleNo(t) \in 1..Len(ScenarioLevels) THEN ScenarioLevels[SampleNo(t)] ELSE LOW

\* the sleep lasts its duration, the statements of a cycle take no time
ScenarioTick == MonitorTick /\ now < m_wake

\* the PIR takes the level of the next sample while run() sleeps
ScenarioPirChange == PirChange /\ pir # ScenarioLevel(IntTime(m_wake))

ScenarioWake == MonitorWake /\ pir = ScenarioLevel(IntTime(now))

InitScenario == InitMonitor /\ gpio = "rpi"

NextScenario ==
    \/ MonitorConstruct \/ MonitorTop \/ MonitorDht \/ MonitorPir \/ MonitorControl
    \/ ScenarioWake \/ MonitorInterrupt \/ MonitorCleanup \/ ScenarioTick
    \/ ScenarioPirChange

SpecScenario == InitScenario /\ [][NextScenario]_vars

(***************************************************************************)
(* motion_service.py: MotionService, and run_motion.py: main               *)
(***************************************************************************)
\* durations of MotionService, in tenths of a second
BEEP_TENTHS      == 8      \* _beep(duration=0.8)
COOLDOWN_TENTHS  == 20     \* cooldown=2.0
IDLE_TENTHS      == 1      \* time.sleep(0.1)

\* a sleep of d tenths of a second lasts at least this many ticks
SleepTicks(d) == (d * TicksPerSec + 9) \div 10

MotionInRun == s_pc \in {"poll", "beep", "cooldown", "idle"}

\* exit statuses of the interpreter: main() returned; ended by an uncaught
\* KeyboardInterrupt
EXIT_OK     == 0
EXIT_SIGINT == 130

\* main(): service = MotionService(...): _setup_gpio raises RuntimeError when
\* RPi.GPIO is missing, and the GPIO calls of the real module can raise it too;
\* main() catches RuntimeError, prints it and returns
MotionConstruct ==
    /\ prog = "motion" /\ s_pc = "main"
    /\ \/ /\ gpio = "rpi"
          /\ gpio_setup' = TRUE /\ s_pc' = "poll" /\ exc' = exc
          /\ exit_status' = exit_status
       \/ /\ gpio_setup' = FALSE /\ s_pc' = "done" /\ exc' = "RuntimeError"
          /\ exit_status' = Some(EXIT_OK)
    /\ UNCHANGED <<prog, now, gpio, fan_pin, buzzer_pin, led_pin, outbox, pir,
                   starts_in_high, auto_strobe, cleaned, nonMotionVars, s_wake>>

\* if self._gpio.input(self.pir_pin): ... self._beep() begins; else time.sleep(0.1)
MotionPoll ==
    /\ prog = "motion" /\ s_pc = "poll"
    /\ outbox' = <<>>
    /\ IF pir = HIGH
          THEN /\ buzzer_pin' = HIGH
               /\ s_pc' = "beep"
               /\ s_wake' = now + SleepTicks(BEEP_TENTHS)
          ELSE /\ buzzer_pin' = buzzer_pin
               /\ s_pc' = "idle"
               /\ s_wake' = now + SleepTicks(IDLE_TENTHS)
    /\ UNCHANGED <<prog, now, gpio, gpio_setup, fan_pin, led_pin, exc, pir,
                   starts_in_high, auto_strobe, cleaned, nonMotionVars, exit_status>>

\* _beep() ends: buzzer LOW; the payload is published inside try/except
\* Exception (every outcome of publish_data goes on); time.sleep(self.cooldown)
MotionPublish ==
    /\ prog = "motion" /\ s_pc = "beep"
    /\ now >= s_wake
    /\ buzzer_pin' = LOW
    /\ \E o \in PublishOutcomes :
          outbox' = Append(outbox, MotionMsg(1, IntTime(now)))
    /\ starts_in_high' = starts_in_high + 1
    /\ s_pc' = "cooldown"
    /\ s_wake' = now + SleepTicks(COOLDOWN_TENTHS)
    /\ UNCHANGED <<prog, now, gpio, gpio_setup, fan_pin, led_pin, exc, pir,
                   auto_strobe, cleaned, nonMotionVars, exit_status>>

\* time.sleep(self.cooldown) or time.sleep(0.1) returns
MotionWake ==
    /\ prog = "motion" /\ s_pc \in {"cooldown", "idle"}
    /\ now >= s_wake
    /\ s_pc' = "poll"
    /\ UNCHANGED <<commonVars, nonMotionVars, s_wake, exit_status>>

\* Ctrl+C: inside run()'s try it is caught and `finally` follows; in main(),
\* before run(), it ends the process
MotionInterrupt ==
    /\ prog = "motion" /\ (MotionInRun \/ s_pc = "main")
    /\ exc' = "KeyboardInterrupt"
    /\ s_pc' = IF s_pc = "main" THEN "done" ELSE "finally"
    /\ exit_status' = IF s_pc = "main" THEN Some(EXIT_SIGINT) ELSE exit_status
    /\ UNCHANGED <<prog, now, gpio, gpio_setup, fan_pin, buzzer_pin, led_pin, outbox,
                   pir, starts_in_high, auto_strobe, cleaned, nonMotionVars, s_wake>>

\* finally: self._gpio.cleanup(); run() and main() return
MotionCleanup ==
    /\ prog = "motion" /\ s_pc = "finally"
    /\ gpio_setup' = FALSE
    /\ fan_pin' = LOW /\ buzzer_pin' = LOW /\ led_pin' = LOW
    /\ cleaned' = TRUE
    /\ s_pc' = "done"
    /\ exit_status' = Some(EXIT_OK)
    /\ UNCHANGED <<prog, now, gpio, exc, outbox, pir, starts_in_high, auto_strobe,
                   nonMotionVars, s_wake>>

\* time passes while run() sleeps
MotionTick ==
    /\ prog = "motion" /\ s_pc \in {"beep", "cooldown", "idle"}
    /\ now < s_wake
    /\ now < StartTime + HorizonMotion
    /\ now' = now + 1
    /\ UNCHANGED <<prog, gpio, gpio_setup, fan_pin, buzzer_pin, led_pin, exc, outbox,
                   pir, starts_in_high, auto_strobe, cleaned, nonMotionVars, motionVars>>

\* the PIR output changes level while run() sleeps
MotionPirChange ==
    /\ prog = "motion" /\ s_pc \in {"beep", "cooldown", "idle"}
    /\ pir' = 1 - pir
    /\ starts_in_high' = IF pir = HIGH THEN 0 ELSE starts_in_high
    /\ UNCHANGED <<prog, now, gpio, gpio_setup, fan_pin, buzzer_pin, led_pin, exc,
                   outbox, auto_strobe, cleaned, nonMotionVars, motionVars>>

InitMotion ==
    /\ prog = "motion"
    /\ now = StartTime
    /\ gpio \in {"rpi", "none"} /\ gpio_setup = FALSE
    /\ InitCommon
    /\ InitListenerVars
    /\ InitMonitorVars
    /\ InitMotionVars
    /\ InitHwVars

NextMotion ==
    \/ MotionConstruct \/ MotionPoll \/ MotionPublish \/ MotionWake
    \/ MotionInterrupt \/ MotionCleanup \/ MotionTick \/ MotionPirChange

SpecMotion == InitMotion /\ [][NextMotion]_vars

(***************************************************************************)
(* hardware_controller.py: HardwareController, the object behind the web   *)
(* application's hardware routes.  A method call is one step; the object   *)
(* is a record while a method runs, the variables between the calls.       *)
(***************************************************************************)
MaxHwOps == 4             \* calls followed in one behaviour

PRESETS == [comfort      |-> [fan_auto |-> Some(TRUE),  temp_threshold |-> Some(220),
                              fan_state |-> NoValue],
            energy_saver |-> [fan_auto |-> Some(TRUE),  temp_threshold |-> Some(240),
                              fan_state |-> NoValue],
            manual       |-> [fan_auto |-> Some(FALSE), temp_threshold |-> NoValue,
                              fan_state |-> NoValue],
            away         |-> [fan_auto |-> Some(FALSE), temp_threshold |-> NoValue,
                              fan_state |-> Some(FALSE)]]

PresetNames   == {"comfort", "energy_saver", "manual", "away", "party"}
HwThresholds  == {220, 250}
HwTemps       == {NoValue, Some(220), Some(225), Some(255)}

\* the object and what a call has done so far
HwSelf ==
    [current_preset |-> current_preset, fan_auto_mode |-> fan_auto_mode,
     temp_threshold |-> temp_threshold, fan_state |-> fan_state,
     buzzer_state |-> buzzer_state, buzzer_timer |-> buzzer_timer,
     fan_pin |-> fan_pin, buzzer_pin |-> buzzer_pin, led_pin |-> led_pin,
     gpio_setup |-> gpio_setup, auto_strobe |-> auto_strobe,
     outbox |-> <<>>, exc |-> None]

Level(b) == IF b THEN HIGH ELSE LOW

\* RPi.GPIO.output on a channel that is not set up raises RuntimeError;
\* MockGPIO.output only prints
GpioOutput(self, pin, level) ==
    IF gpio = "rpi" /\ ~self.gpio_setup
        THEN [self EXCEPT !.exc = "RuntimeError"]
        ELSE [self EXCEPT ![pin] = level]

get_status(self) ==
    [fan_state |-> self.fan_state, fan_auto_mode |-> self.fan_auto_mode,
     temp_threshold |-> self.temp_threshold, buzzer_state |-> self.buzzer_state,
     current_preset |-> self.current_preset]

HwMsg(status, at) ==
    [event |-> "hardware_state", device_uid |-> "hardware_controller",
     state |-> status, at |-> at]

\* _publish_state: only ImportError is caught
publish_state(self, o) ==
    IF self.exc # None \/ ~pubnub_import THEN self
    ELSE [self EXCEPT !.outbox = Append(@, HwMsg(get_status(self), IntTime(now))),
                      !.exc = IF o = "raise" THEN "PubNubException" ELSE None]

set_fan_state(self, state, o) ==
    IF self.exc # None THEN self
    ELSE publish_state(
           GpioOutput([self EXCEPT !.fan_state = state], "fan_pin", Level(state)), o)

set_fan_auto_mode(self, auto_mode, o) ==
    IF self.exc # None THEN self
    ELSE publish_state([self EXCEPT !.fan_auto_mode = auto_mode], o)

set_temperature_threshold(self, threshold, o) ==
    IF self.exc # None THEN self
    ELSE publish_state([self EXCEPT !.temp_threshold = threshold], o)

control_fan_based_on_temp(self, current_temp) ==
    IF ~self.fan_auto_mode \/ current_temp = NoValue THEN self
    ELSE LET should_turn_on == Val(current_temp) > self.temp_threshold IN
         IF should_turn_on # self.fan_state
            THEN GpioOutput([self EXCEPT !.fan_state = should_turn_on,
                                         !.auto_strobe = 1 - @],
                            "fan_pin", Level(should_turn_on))
            ELSE self

\* the Timer is started only when the write before it did not raise
buzzer_beep(self) ==
    IF self.buzzer_timer = "alive" THEN self
    ELSE LET s == GpioOutput([self EXCEPT !.buzzer_state = TRUE], "buzzer_pin", HIGH) IN
         IF s.exc # None THEN s ELSE [s EXCEPT !.buzzer_timer = "alive"]

buzzer_off(self) ==
    GpioOutput([self EXCEPT !.buzzer_state = FALSE], "buzzer_pin", LOW)

set_buzzer_state(self, state) ==
    IF state THEN buzzer_beep(self)
    ELSE buzzer_off([self EXCEPT !.buzzer_timer =
                         IF @ = "alive" THEN "cancelled" ELSE @])

\* os: the outcomes of the publishes of the setters and of the final publish
apply_preset(self, preset_name, os) ==
    IF preset_name \notin DOMAIN PRESETS THEN self
    ELSE LET preset == PRESETS[preset_name]
             s0 == [self EXCEPT !.current_preset = preset_name]
             s1 == IF preset.fan_auto # NoValue
                      THEN set_fan_auto_mode(s0, Val(preset.fan_auto), os[1]) ELSE s0
             s2 == IF preset.temp_threshold # NoValue
                      THEN set_temperature_threshold(s1, Val(preset.temp_threshold), os[2])
                      ELSE s1
             s3 == IF preset.fan_state # NoValue
                      THEN set_fan_state(s2, Val(preset.fan_state), os[3]) ELSE s2
         IN publish_state(s3, os[4])

\* cleanup: cancel the timer, three writes of LOW, GPIO.cleanup()
cleanup(self) ==
    LET s0 == [self EXCEPT !.buzzer_timer = IF @ = "alive" THEN "cancelled" ELSE @]
        s1 == GpioOutput(s0, "buzzer_pin", LOW)
        s2 == GpioOutput(s1, "fan_pin", LOW)
        s3 == GpioOutput(s2, "led_pin", LOW)
    IN IF s1.exc # None THEN s1 ELSE [s3 EXCEPT !.gpio_setup = FALSE]

\* a call of method name has left the object as r
HwCall(name, r) ==
    /\ prog = "hw" /\ hw_ops < MaxHwOps
    /\ hw_op' = name /\ hw_ops' = hw_ops + 1
    /\ current_preset' = r.current_preset /\ fan_auto_mode' = r.fan_auto_mode
    /\ temp_threshold' = r.temp_threshold /\ fan_state' = r.fan_state
    /\ buzzer_state' = r.buzzer_state /\ buzzer_timer' = r.buzzer_timer
    /\ fan_pin' = r.fan_pin /\ buzzer_pin' = r.buzzer_pin /\ led_pin' = r.led_pin
    /\ gpio_setup' = r.gpio_setup /\ auto_strobe' = r.auto_strobe
    /\ outbox' = r.outbox /\ exc' = r.exc
    /\ cleaned' = (cleaned \/ (name = "cleanup" /\ r.exc = None))
    /\ UNCHANGED <<prog, now, gpio, pir, starts_in_high, pubnub_import, nonHwVars>>

SetFanState ==
    \E state \in BOOLEAN, o \in PublishOutcomes :
        HwCall("set_fan_state", set_fan_state(HwSelf, state, o))

SetFanAutoMode ==
    \E auto_mode \in BOOLEAN, o \in PublishOutcomes :
        HwCall("set_fan_auto_mode", set_fan_auto_mode(HwSelf, auto_mode, o))

SetTemperatureThreshold ==
    \E threshold \in HwThresholds, o \in PublishOutcomes :
        HwCall("set_temperature_threshold", set_temperature_threshold(HwSelf, threshold, o))

ControlFanBasedOnTemp ==
    \E current_temp \in HwTemps :
        HwCall("control_fan_based_on_temp", control_fan_based_on_temp(HwSelf, current_temp))

BuzzerBeep == HwCall("buzzer_beep", buzzer_beep(HwSelf))

SetBuzzerState ==
    \E state \in BOOLEAN : HwCall("set_buzzer_state", set_buzzer_state(HwSelf, state))

ApplyPreset ==
    \E preset_name \in PresetNames, failing \in 0..4 :
        HwCall("apply_preset",
               apply_preset(HwSelf, preset_name,
                            [i \in 1..4 |-> IF i = failing THEN "raise" ELSE "ok"]))

Cleanup == HwCall("cleanup", cleanup(HwSelf))

\* the Timer thread runs _buzzer_off; an exception in it ends that thread only
BuzzerTimerFires ==
    /\ prog = "hw" /\ buzzer_timer = "alive"
    /\ buzzer_timer' = "done"
    /\ LET r == buzzer_off(HwSelf) IN
         /\ buzzer_state' = r.buzzer_state
         /\ buzzer_pin' = r.buzzer_pin
    /\ UNCHANGED <<prog, now, gpio, gpio_setup, fan_pin, led_pin, exc, outbox, pir,
                   starts_in_high, auto_strobe, cleaned, nonHwVars,
                   current_preset, fan_auto_mode, temp_threshold, fan_state,
                   pubnub_import, hw_op, hw_ops>>

\* hardware_controller = HardwareController() has run at import
InitHw ==
    /\ prog = "hw"
    /\ now = StartTime
    /\ gpio \in {"rpi", "mock"} /\ gpio_setup = TRUE
    /\ InitCommon
    /\ InitListenerVars
    /\ InitMonitorVars
    /\ InitMotionVars
    /\ InitHwFields
    /\ pubnub_import \in BOOLEAN
    /\ InitExtraVars

NextHw ==
    \/ SetFanState \/ SetFanAutoMode \/ SetTemperatureThreshold
    \/ ControlFanBasedOnTemp \/ BuzzerBeep \/ SetBuzzerState \/ ApplyPreset
    \/ Cleanup \/ BuzzerTimerFires

SpecHw == InitHw /\ [][NextHw]_vars

(***************************************************************************)
(* The automatic fan policies of the three implementations, each applied   *)
(* to a reading drawn from the range around its threshold.                 *)
(***************************************************************************)
PolicyTemps == 215..265

\* the threshold an implementation compares with
PolicyThreshold(impl) ==
    CASE impl = "listener" -> AUTO_THRESHOLD
      [] impl = "monitor"  -> TEMP_THRESHOLD_C
      [] OTHER             -> temp_threshold

\* auto_fan_controller: the branch taken for a reading
PolicyListener ==
    /\ prog = "policy"
    /\ pol_impl' = "listener"
    /\ pol_fan' = AutoFanLevel(pol_temp)
    /\ UNCHANGED <<commonVars, nonPolicyVars, pol_temp, pol_reading>>

\* SmartHomeMonitor._control_actuators: the branch taken for a reading
PolicyMonitor ==
    /\ prog = "policy"
    /\ pol_impl' = "monitor"
    /\ pol_fan' = MonitorFanLevel(pol_temp)
    /\ UNCHANGED <<commonVars, nonPolicyVars, pol_temp, pol_reading>>

\* HardwareController.control_fan_based_on_temp on the object as constructed
\* (fan off, automatic mode): the fan_state it leaves
PolicyHw ==
    /\ prog = "policy"
    /\ pol_impl' = "hw"
    /\ pol_fan' = Level(control_fan_based_on_temp(HwSelf, Some(pol_temp)).fan_state)
    /\ UNCHANGED <<commonVars, nonPolicyVars, pol_temp, pol_reading>>

InitPolicy ==
    /\ prog = "policy"
    /\ now = StartTime
    /\ gpio = "mock" /\ gpio_setup = TRUE
    /\ InitCommon
    /\ InitListenerVars
    /\ InitMonitorVars
    /\ InitMotionVars
    /\ InitHwFields
    /\ pubnub_import = FALSE
    /\ pol_temp \in PolicyTemps /\ pol_impl = None /\ pol_fan = LOW
    /\ pol_reading = NoValue
    /\ InitLoggerVars
    /\ InitThreadVars
    /\ InitWebVars

NextPolicy == PolicyListener \/ PolicyMonitor \/ PolicyHw

SpecPolicy == InitPolicy /\ [][NextPolicy]_vars

(***************************************************************************)
(* The automatic fan policies applied to a sequence of readings whose      *)
(* temperature may be absent: what each leaves of the fan.                 *)
(***************************************************************************)
Readings == {NoValue} \cup {Some(t) : t \in PolicyTemps}

\* auto_fan_controller: if temp is not None: ... GPIO.output(FAN_PIN, ...)
ListenerFanAfter(temp, fan) ==
    IF temp # NoValue THEN AutoFanLevel(Val(temp)) ELSE fan

\* an absent temperature compared as the number 0
MonitorFanAfterAbsentAsZero(t, fan) ==
    MonitorFanLevel(IF t = NoValue THEN 0 ELSE Val(t))

\* _control_actuators: if temp_c is not None: ... output(FAN_PIN, ...)
MonitorFanAfter(t, fan) ==
    IF t # NoValue THEN MonitorFanLevel(Val(t)) ELSE fan

ReadingListener ==
    /\ prog = "readings" /\ pol_impl = "listener"
    /\ \E temp \in Readings :
          /\ pol_reading' = temp
          /\ fan_pin' = ListenerFanAfter(temp, fan_pin)
    /\ UNCHANGED <<prog, now, gpio, gpio_setup, buzzer_pin, led_pin, exc, outbox, pir,
                   starts_in_high, auto_strobe, cleaned, nonPolicyVars, pol_temp,
                   pol_impl, pol_fan>>

ReadingMonitor ==
    /\ prog = "readings" /\ pol_impl = "monitor"
    /\ \E t \in Readings :
          /\ pol_reading' = t
          /\ fan_pin' = MonitorFanAfter(t, fan_pin)
    /\ UNCHANGED <<prog, now, gpio, gpio_setup, buzzer_pin, led_pin, exc, outbox, pir,
                   starts_in_high, auto_strobe, cleaned, nonPolicyVars, pol_temp,
                   pol_impl, pol_fan>>

\* hardware_controller.control_fan_based_on_temp(current_temp)
ReadingHw ==
    /\ prog = "readings" /\ pol_impl = "hw"
    /\ \E current_temp \in Readings :
          LET r == control_fan_based_on_temp(HwSelf, current_temp) IN
          /\ pol_reading' = current_temp
          /\ fan_state' = r.fan_state
          /\ fan_pin' = r.fan_pin
    /\ UNCHANGED <<prog, now, gpio, gpio_setup, buzzer_pin, led_pin, exc, outbox, pir,
                   starts_in_high, auto_strobe, cleaned, listenerVars, monitorVars,
                   motionVars, loggerVars, threadVars, webVars, current_preset,
                   fan_auto_mode,
                   temp_threshold, buzzer_state, buzzer_timer, pubnub_import, hw_op,
                   hw_ops, pol_temp, pol_impl, pol_fan>>

InitReadings ==
    /\ prog = "readings"
    /\ now = StartTime
    /\ gpio = "mock" /\ gpio_setup = TRUE
    /\ InitCommon
    /\ InitListenerVars
    /\ InitMonitorVars
    /\ InitMotionVars
    /\ InitHwFields
    /\ pubnub_import = FALSE
    /\ pol_temp = 0 /\ pol_impl \in {"listener", "monitor", "hw"} /\ pol_fan = LOW
    /\ pol_reading = NoValue
    /\ InitLoggerVars
    /\ InitThreadVars
    /\ InitWebVars

NextReadings == ReadingListener \/ ReadingMonitor \/ ReadingHw

SpecReadings == InitReadings /\ [][NextReadings]_vars

(***************************************************************************)
(* dht22_logger.py: main                                                   *)
(***************************************************************************)
LOGGER_INTERVAL == 15      \* READ_INTERVAL_SECONDS of dht22_logger.py, seconds
LOGGER_BACKOFF  == 2       \* time.sleep(2.0)
HorizonLogger   == 36      \* ticks the logger is followed for

\* DummyDHT: round(random.uniform(20.0, 26.0), 1), round(random.uniform(30.0, 70.0), 1)
DummyTemps == {200, 231, 260}
DummyHums  == {300, 700}

\* the snapshot payload: round(float(t_c), 2), round(float(t_c * 9 / 5 + 32), 2),
\* round(float(h), 2), in hundredths
SnapshotMsg(t, hum, at) ==
    [event |-> "ThermoTrack_snapshot", temperature_c |-> Some(Round2(t)),
     temperature_f |-> Some(18 * t + 3200), humidity |-> Some(Round2(hum)), at |-> at]

LoggerInLoop == g_pc \in {"poll", "log", "publish", "sleep"}

\* ensure_csv(LOG_FILE_PATH); init_dht_device()
LoggerInit ==
    /\ prog = "logger" /\ g_pc = "init"
    /\ \E w \in BOOLEAN : g_writer' = w
    /\ \E d \in {"real", "dummy"} : g_dht' = d
    /\ g_pc' = "poll"
    /\ UNCHANGED <<commonVars, nonLoggerVars, g_wake, g_answer, t_c, h>>

\* the sleep that ends a cycle
LoggerSleep(seconds) ==
    /\ g_pc' = "sleep"
    /\ g_wake' = now + Secs(seconds)

\* t_c = getattr(dht, "temperature", None); h = getattr(dht, "humidity", None);
\* None: sleep 2.0 and continue; RuntimeError, Exception: logged, then the sleep
LoggerPoll ==
    /\ prog = "logger" /\ g_pc = "poll"
    /\ outbox' = <<>>
    /\ \E a \in (IF g_dht = "dummy" THEN {"ok"} ELSE DhtAnswers) :
         /\ g_answer' = a
         /\ CASE a = "ok" ->
                   /\ \E t \in (IF g_dht = "dummy" THEN DummyTemps ELSE SensorTemps),
                         hum \in (IF g_dht = "dummy" THEN DummyHums ELSE SensorHums) :
                         t_c' = Some(t) /\ h' = Some(hum)
                   /\ g_pc' = "log" /\ g_wake' = g_wake
              [] a = "none" ->
                   /\ t_c' = NoValue /\ h' = NoValue
                   /\ LoggerSleep(LOGGER_BACKOFF)
              [] OTHER ->
                   /\ UNCHANGED <<t_c, h>>
                   /\ LoggerSleep(LOGGER_INTERVAL)
    /\ UNCHANGED <<prog, now, gpio, gpio_setup, fan_pin, buzzer_pin, led_pin, exc, pir,
                   starts_in_high, auto_strobe, cleaned, nonLoggerVars,
                   g_dht, g_writer>>

\* if writer: writer.writerow(...); csv_file.flush(): an error of the write is
\* caught by `except Exception` of the cycle, which skips the publish
LoggerLog ==
    /\ prog = "logger" /\ g_pc = "log"
    /\ \/ /\ g_pc' = "publish" /\ g_wake' = g_wake
       \/ /\ g_writer
          /\ LoggerSleep(LOGGER_INTERVAL)
    /\ UNCHANGED <<commonVars, nonLoggerVars, g_dht, g_writer, g_answer,
                   t_c, h>>

\* publish_data(...) inside try/except Exception, then time.sleep(READ_INTERVAL_SECONDS)
LoggerPublish ==
    /\ prog = "logger" /\ g_pc = "publish"
    /\ \E o \in PublishOutcomes :
          outbox' = Append(outbox, SnapshotMsg(Val(t_c), Val(h), now))
    /\ LoggerSleep(LOGGER_INTERVAL)
    /\ UNCHANGED <<prog, now, gpio, gpio_setup, fan_pin, buzzer_pin, led_pin, exc, pir,
                   starts_in_high, auto_strobe, cleaned, nonLoggerVars,
                   g_dht, g_writer, g_answer, t_c, h>>

LoggerWake ==
    /\ prog = "logger" /\ g_pc = "sleep"
    /\ now >= g_wake
    /\ g_pc' = "poll"
    /\ UNCHANGED <<commonVars, nonLoggerVars, g_wake, g_dht, g_writer,
                   g_answer, t_c, h>>

\* Ctrl+C inside the try of main()
LoggerInterrupt ==
    /\ prog = "logger" /\ LoggerInLoop
    /\ exc' = "KeyboardInterrupt"
    /\ g_pc' = "finally"
    /\ UNCHANGED <<prog, now, gpio, gpio_setup, fan_pin, buzzer_pin, led_pin, outbox,
                   pir, starts_in_high, auto_strobe, cleaned, nonLoggerVars,
                   g_wake, g_dht, g_writer, g_answer, t_c, h>>

\* finally: csv_file.close()
LoggerCleanup ==
    /\ prog = "logger" /\ g_pc = "finally"
    /\ g_pc' = "done"
    /\ cleaned' = TRUE
    /\ UNCHANGED <<prog, now, gpio, gpio_setup, fan_pin, buzzer_pin, led_pin, exc,
                   outbox, pir, starts_in_high, auto_strobe, nonLoggerVars,
                   g_wake, g_dht, g_writer, g_answer, t_c, h>>

\* time passes while main() sleeps
LoggerTick ==
    /\ prog = "logger" /\ g_pc = "sleep"
    /\ now < g_wake
    /\ now < StartTime + HorizonLogger
    /\ now' = now + 1
    /\ UNCHANGED <<prog, gpio, gpio_setup, fan_pin, buzzer_pin, led_pin, exc, outbox,
                   pir, starts_in_high, auto_strobe, cleaned, nonLoggerVars,
                   loggerVars>>

InitLogger ==
    /\ prog = "logger"
    /\ now = StartTime
    /\ gpio = "none" /\ gpio_setup = FALSE
    /\ InitCommon
    /\ InitListenerVars
    /\ InitMonitorVars
    /\ InitMotionVars
    /\ InitHwVars

NextLogger ==
    \/ LoggerInit \/ LoggerPoll \/ LoggerLog \/ LoggerPublish \/ LoggerWake
    \/ LoggerInterrupt \/ LoggerCleanup \/ LoggerTick

SpecLogger == InitLogger /\ [][NextLogger]_vars

\* the process of the program has ended
(***************************************************************************)
(* The web application's threads on the HardwareController's buzzer: the   *)
(* request threads of app.run() in control_buzzer -> set_buzzer_state, the *)
(* threading.Timer threads started by buzzer_beep, and the thread that     *)
(* runs cleanup().  A step is one statement; the code takes no lock.  A    *)
(* started timer fires at any later moment.                                *)
(***************************************************************************)
Requests == 1..MaxRequests

\* Thread.is_alive(): from start() until run() has ended
TimerAlive(t) == t # 0 /\ timers[t] \in {"waiting", "fired", "off_out", "cancelled"}

\* self._gpio.output(BUZZER_PIN, level) by a thread: after GPIO.cleanup() the
\* channel is released and the level is not driven (RPi.GPIO raises RuntimeError)
ThreadOutput(level) ==
    /\ buzzer_pin' = IF gpio_setup THEN level ELSE buzzer_pin
    /\ late_write' = (late_write \/ cleaned)

\* control_buzzer: hardware_controller.set_buzzer_state(state)
ReqCall(r) ==
    /\ prog = "threads" /\ r_pc[r] = "idle"
    /\ c_pc # "done"
    /\ \E state \in BOOLEAN :
          /\ state => Len(timers) < MaxTimers
          /\ r_pc' = [r_pc EXCEPT ![r] = IF state THEN "beep_check" ELSE "off_cancel"]
    /\ UNCHANGED <<commonVars, nonThreadVars, hwVars, timers, cur_timer, c_pc, late_write>>

\* buzzer_beep: if self._buzzer_timer and self._buzzer_timer.is_alive(): return
ReqBeepCheck(r) ==
    /\ prog = "threads" /\ r_pc[r] = "beep_check"
    /\ r_pc' = [r_pc EXCEPT ![r] = IF TimerAlive(cur_timer) THEN "idle" ELSE "beep_set"]
    /\ UNCHANGED <<commonVars, nonThreadVars, hwVars, timers, cur_timer, c_pc, late_write>>

\* buzzer_beep: self.buzzer_state = True
ReqBeepSet(r) ==
    /\ prog = "threads" /\ r_pc[r] = "beep_set"
    /\ buzzer_state' = TRUE
    /\ r_pc' = [r_pc EXCEPT ![r] = "beep_out"]
    /\ UNCHANGED <<commonVars, nonThreadVars, current_preset, fan_auto_mode,
                   temp_threshold, fan_state, buzzer_timer, pubnub_import, hw_op,
                   hw_ops, timers, cur_timer, c_pc, late_write>>

\* buzzer_beep: self._gpio.output(self.BUZZER_PIN, self._gpio.HIGH); an
\* exception ends the request (control_buzzer answers 500)
ReqBeepOut(r) ==
    /\ prog = "threads" /\ r_pc[r] = "beep_out"
    /\ ThreadOutput(HIGH)
    /\ r_pc' = [r_pc EXCEPT ![r] = IF gpio_setup \/ gpio = "mock" THEN "beep_new"
                                                                ELSE "idle"]
    /\ UNCHANGED <<prog, now, gpio, gpio_setup, fan_pin, led_pin, exc, outbox, pir,
                   starts_in_high, auto_strobe, cleaned, nonThreadVars, hwVars,
                   timers, cur_timer, c_pc>>

\* buzzer_beep: self._buzzer_timer = threading.Timer(duration, self._buzzer_off)
ReqBeepNew(r) ==
    /\ prog = "threads" /\ r_pc[r] = "beep_new"
    /\ timers' = Append(timers, "new")
    /\ cur_timer' = Len(timers) + 1
    /\ r_pc' = [r_pc EXCEPT ![r] = "beep_start"]
    /\ UNCHANGED <<commonVars, nonThreadVars, hwVars, c_pc, late_write>>

\* buzzer_beep: self._buzzer_timer.start(), on the timer the attribute refers
\* to now; start() of a thread that was started before raises RuntimeError
ReqBeepStart(r) ==
    /\ prog = "threads" /\ r_pc[r] = "beep_start"
    /\ timers' = IF timers[cur_timer] = "new"
                    THEN [timers EXCEPT ![cur_timer] = "waiting"]
                    ELSE timers
    /\ r_pc' = [r_pc EXCEPT ![r] = "idle"]
    /\ UNCHANGED <<commonVars, nonThreadVars, hwVars, cur_timer, c_pc, late_write>>

\* Timer.cancel(): a timer still waiting will not call its function
Cancelled(ts_) ==
    IF TimerAlive(cur_timer) /\ ts_[cur_timer] = "waiting"
       THEN [ts_ EXCEPT ![cur_timer] = "cancelled"]
       ELSE ts_

\* set_buzzer_state(False): if the timer is alive, cancel it
ReqOffCancel(r) ==
    /\ prog = "threads" /\ r_pc[r] = "off_cancel"
    /\ timers' = Cancelled(timers)
    /\ r_pc' = [r_pc EXCEPT ![r] = "off_set"]
    /\ UNCHANGED <<commonVars, nonThreadVars, hwVars, cur_timer, c_pc, late_write>>

\* _buzzer_off, called by set_buzzer_state: self.buzzer_state = False
ReqOffSet(r) ==
    /\ prog = "threads" /\ r_pc[r] = "off_set"
    /\ buzzer_state' = FALSE
    /\ r_pc' = [r_pc EXCEPT ![r] = "off_out"]
    /\ UNCHANGED <<commonVars, nonThreadVars, current_preset, fan_auto_mode,
                   temp_threshold, fan_state, buzzer_timer, pubnub_import, hw_op,
                   hw_ops, timers, cur_timer, c_pc, late_write>>

\* _buzzer_off, called by set_buzzer_state: output(BUZZER_PIN, LOW)
ReqOffOut(r) ==
    /\ prog = "threads" /\ r_pc[r] = "off_out"
    /\ ThreadOutput(LOW)
    /\ r_pc' = [r_pc EXCEPT ![r] = "idle"]
    /\ UNCHANGED <<prog, now, gpio, gpio_setup, fan_pin, led_pin, exc, outbox, pir,
                   starts_in_high, auto_strobe, cleaned, nonThreadVars, hwVars,
                   timers, cur_timer, c_pc>>

\* Timer.run(): the wait has timed out and finished is not set
TimerFire(t) ==
    /\ prog = "threads" /\ timers[t] = "waiting"
    /\ timers' = [timers EXCEPT ![t] = "fired"]
    /\ UNCHANGED <<commonVars, nonThreadVars, hwVars, r_pc, cur_timer, c_pc, late_write>>

\* _buzzer_off on the timer thread: self.buzzer_state = False
TimerSet(t) ==
    /\ prog = "threads" /\ timers[t] = "fired"
    /\ buzzer_state' = FALSE
    /\ timers' = [timers EXCEPT ![t] = "off_out"]
    /\ UNCHANGED <<commonVars, nonThreadVars, current_preset, fan_auto_mode,
                   temp_threshold, fan_state, buzzer_timer, pubnub_import, hw_op,
                   hw_ops, r_pc, cur_timer, c_pc, late_write>>

\* _buzzer_off on the timer thread: output(BUZZER_PIN, LOW); the thread ends
TimerOut(t) ==
    /\ prog = "threads" /\ timers[t] = "off_out"
    /\ ThreadOutput(LOW)
    /\ timers' = [timers EXCEPT ![t] = "dead"]
    /\ UNCHANGED <<prog, now, gpio, gpio_setup, fan_pin, led_pin, exc, outbox, pir,
                   starts_in_high, auto_strobe, cleaned, nonThreadVars, hwVars,
                   r_pc, cur_timer, c_pc>>

\* the thread of a cancelled timer ends
TimerExit(t) ==
    /\ prog = "threads" /\ timers[t] = "cancelled"
    /\ timers' = [timers EXCEPT ![t] = "dead"]
    /\ UNCHANGED <<commonVars, nonThreadVars, hwVars, r_pc, cur_timer, c_pc, late_write>>

\* cleanup(): if the timer is alive, cancel it
CleanupCancel ==
    /\ prog = "threads" /\ c_pc = "idle"
    /\ timers' = Cancelled(timers)
    /\ c_pc' = "outputs"
    /\ UNCHANGED <<commonVars, nonThreadVars, hwVars, r_pc, cur_timer, late_write>>

\* cleanup(): output(BUZZER_PIN, LOW), output(FAN_PIN, LOW), output(LED_PIN, LOW)
CleanupOutputs ==
    /\ prog = "threads" /\ c_pc = "outputs"
    /\ buzzer_pin' = LOW /\ fan_pin' = LOW /\ led_pin' = LOW
    /\ c_pc' = "release"
    /\ UNCHANGED <<prog, now, gpio, gpio_setup, exc, outbox, pir, starts_in_high,
                   auto_strobe, cleaned, nonThreadVars, hwVars, r_pc, timers,
                   cur_timer, late_write>>

\* cleanup(): self._gpio.cleanup() releases the channels
CleanupRelease ==
    /\ prog = "threads" /\ c_pc = "release"
    /\ gpio_setup' = FALSE
    /\ cleaned' = TRUE
    /\ c_pc' = "done"
    /\ UNCHANGED <<prog, now, gpio, fan_pin, buzzer_pin, led_pin, exc, outbox, pir,
                   starts_in_high, auto_strobe, nonThreadVars, hwVars, r_pc, timers,
                   cur_timer, late_write>>

\* hardware_controller = HardwareController() has run at import of app.py
InitThreads ==
    /\ prog = "threads"
    /\ now = StartTime
    /\ gpio \in {"rpi", "mock"} /\ gpio_setup = TRUE
    /\ InitCommon
    /\ InitListenerVars
    /\ InitMonitorVars
    /\ InitMotionVars
    /\ InitHwVars

NextThreads ==
    \/ \E r \in Requests :
          \/ ReqCall(r) \/ ReqBeepCheck(r) \/ ReqBeepSet(r) \/ ReqBeepOut(r)
          \/ ReqBeepNew(r) \/ ReqBeepStart(r)
          \/ ReqOffCancel(r) \/ ReqOffSet(r) \/ ReqOffOut(r)
    \/ \E t \in 1..Len(timers) :
          TimerFire(t) \/ TimerSet(t) \/ TimerOut(t) \/ TimerExit(t)
    \/ CleanupCancel \/ CleanupOutputs \/ CleanupRelease

SpecThreads == InitThreads /\ [][NextThreads]_vars

(***************************************************************************)
(* pubnub_subscriber.py: SensorSubscriber.message                          *)
(***************************************************************************)
\* the handler message() passes the payload to, None when it prints "Unknown
\* event type" and stores nothing
SubscriberHandler(data) ==
    CASE data.event = "dht22_reading" -> "_handle_dht22_reading"
      [] data.event = "motion"        -> "_handle_motion_reading"
      [] OTHER                        -> None

(***************************************************************************)
(* web/app.py: the user-management routes delete_user and update_user_role *)
(* and the hardware routes, each request made by a logged-in session.  The *)
(* session keeps the role its user had at login.                           *)
(***************************************************************************)
Users == 1..MaxUsers
Roles == {"admin", "technician", "user", "viewer"}

\* role_required(*roles): session.get("role") in roles
role_required(roles, user_role) == user_role \in roles

\* the session a step serves a request of
WebRequest(s) == [user |-> s, role |-> session_role[s]]

\* a request that ends in a redirect or an error answer changes nothing
WebNoChange ==
    UNCHANGED <<commonVars, nonWebVars, hwVars,
                users, deleted_by, session_role>>

\* POST /delete-user/<user_id>
WebDeleteUser ==
    /\ prog = "web"
    /\ \E s \in Users, user_id \in Users, db_fails \in BOOLEAN :
        LET current_user_role == session_role[s]
            target_user_role  == users[user_id]
            refused ==
                \/ ~role_required({"admin", "technician"}, current_user_role)
                \/ user_id = s
                \/ target_user_role = None
                \/ current_user_role = "technician"
                      /\ target_user_role \in {"admin", "technician"}
                \/ db_fails
        IN  /\ web_req' = WebRequest(s)
            /\ IF refused
                  THEN WebNoChange
                  ELSE /\ users' = [users EXCEPT ![user_id] = None]
                       /\ deleted_by' = [deleted_by EXCEPT ![user_id] = current_user_role]
                       /\ UNCHANGED <<commonVars, nonWebVars, hwVars, session_role>>

\* POST /update-user-role/<user_id> with form field role
WebUpdateUserRole ==
    /\ prog = "web"
    /\ \E s \in Users, user_id \in Users, new_role \in Roles \cup {"owner"},
          db_fails \in BOOLEAN :
        LET current_user_role == session_role[s]
            refused ==
                \/ ~role_required({"admin", "technician"}, current_user_role)
                \/ new_role \notin Roles
                \/ users[user_id] = None
                \/ user_id = s
                \/ db_fails
        IN  /\ web_req' = WebRequest(s)
            /\ IF refused
                  THEN WebNoChange
                  ELSE /\ users' = [users EXCEPT ![user_id] = new_role]
                       /\ UNCHANGED <<commonVars, nonWebVars, hwVars, deleted_by,
                                      session_role>>

\* a hardware route has called a method that left the controller as r; the
\* route catches every exception and answers 500
WebHwCall(r) ==
    /\ current_preset' = r.current_preset /\ fan_auto_mode' = r.fan_auto_mode
    /\ temp_threshold' = r.temp_threshold /\ fan_state' = r.fan_state
    /\ buzzer_state' = r.buzzer_state /\ buzzer_timer' = r.buzzer_timer
    /\ fan_pin' = r.fan_pin /\ buzzer_pin' = r.buzzer_pin /\ led_pin' = r.led_pin
    /\ gpio_setup' = r.gpio_setup /\ auto_strobe' = r.auto_strobe
    /\ outbox' = r.outbox
    /\ UNCHANGED <<prog, now, gpio, exc, pir, starts_in_high, cleaned, pubnub_import,
                   hw_op, hw_ops, nonWebVars, users, deleted_by, session_role>>

\* POST /api/hardware/fan with {"state": ...}
WebControlFan ==
    /\ prog = "web"
    /\ \E s \in Users, state \in BOOLEAN, o \in PublishOutcomes :
        /\ web_req' = WebRequest(s)
        /\ IF role_required({"admin", "technician"}, session_role[s])
              THEN WebHwCall(set_fan_state(HwSelf, state, o))
              ELSE WebNoChange

\* POST /api/hardware/fan/auto with {"auto_mode": ...}
WebSetFanAutoMode ==
    /\ prog = "web"
    /\ \E s \in Users, auto_mode \in BOOLEAN, o \in PublishOutcomes :
        /\ web_req' = WebRequest(s)
        /\ IF role_required({"admin", "technician"}, session_role[s])
              THEN WebHwCall(set_fan_auto_mode(HwSelf, auto_mode, o))
              ELSE WebNoChange

\* POST /api/hardware/preset with {"preset": ...}: login_required only
WebApplyPreset ==
    /\ prog = "web"
    /\ \E s \in Users, preset_name \in PresetNames, failing \in 0..4 :
        /\ web_req' = WebRequest(s)
        /\ WebHwCall(apply_preset(HwSelf, preset_name,
                                  [i \in 1..4 |-> IF i = failing THEN "raise" ELSE "ok"]))

\* the application has started and every user has logged in
InitWeb ==
    /\ prog = "web"
    /\ now = StartTime
    /\ gpio = "mock" /\ gpio_setup = TRUE
    /\ InitCommon
    /\ InitListenerVars
    /\ InitMonitorVars
    /\ InitMotionVars
    /\ InitHwFields
    /\ pubnub_import \in BOOLEAN
    /\ InitPolicyVars
    /\ InitLoggerVars
    /\ InitThreadVars
    /\ users \in [Users -> Roles]
    /\ session_role = users
    /\ deleted_by = [u \in Users |-> None]
    /\ web_req = [user |-> 0, role |-> None]

NextWeb ==
    \/ WebDeleteUser \/ WebUpdateUserRole
    \/ WebControlFan \/ WebSetFanAutoMode \/ WebApplyPreset

SpecWeb == InitWeb /\ [][NextWeb]_vars

ProcessEnded ==
    \/ prog = "listener" /\ l_pc = "done"
    \/ prog = "monitor" /\ m_pc = "done"
    \/ prog = "motion" /\ s_pc = "done"

(***************************************************************************)
(* The claims                                                              *)
(***************************************************************************)
OverrideWindowOpen == now - LAST_MANUAL <= Secs(MANUAL_TIMEOUT)

\* the last command was handled to its end and asked for this fan level
CommandedFan(level) ==
    /\ prog = "listener" /\ l_pc # "done"
    /\ h_pc = "idle"
    /\ h_cmd \in (IF level = HIGH THEN FanOnCmds ELSE FanOffCmds)

\* C1: once a manual command has been handled, the automatic policy of
\* pi_command_listener does not write the fan output within MANUAL_TIMEOUT
\* seconds of it, and the fan output keeps the commanded level while that
\* window is open.
C1_NoAutoWriteInOverrideWindow ==
    [][ /\ (auto_strobe' # auto_strobe /\ h_pc = "idle" /\ h_cmd \in Vocabulary)
              => ~OverrideWindowOpen
        /\ \A level \in {LOW, HIGH} :
              (CommandedFan(level) /\ OverrideWindowOpen)' => fan_pin' = level
      ]_vars

\* the cmd of the message a step of handle_command works on
HandledCmd == IF h_pc = "idle" THEN h_cmd' ELSE h_cmd

\* C2: a message whose cmd is absent or not in the vocabulary changes neither
\* AUTO_MODE nor LAST_MANUAL nor an output.
C2_InvalidCommandIgnored ==
    [][ (prog = "listener" /\ h_pc' # h_pc /\ HandledCmd \notin Vocabulary)
          => UNCHANGED <<AUTO_MODE, LAST_MANUAL, fan_pin, buzzer_pin, led_pin>>
      ]_vars

\* C3: after a manual command accepted at t the override stays active while
\* now - t <= MANUAL_TIMEOUT, and the first check of the loop with
\* now - t > MANUAL_TIMEOUT goes on to set AUTO_MODE.
C3_OverrideLastsTimeout ==
    [][ /\ (prog = "listener" /\ l_pc # "done" /\ h_pc = "idle"
              /\ h_cmd \in Vocabulary /\ OverrideWindowOpen)' => ~AUTO_MODE'
        /\ (l_pc = "check" /\ l_pc' # "check" /\ ~OverrideWindowOpen /\ exc' = None)
              => l_pc' = "resume"
      ]_vars

\* C4: an automatic policy writes the fan output only in a cycle where the level
\* it wants differs from the level the fan has.
C4_FanWrittenOnlyOnChange ==
    [][ auto_strobe' # auto_strobe => fan_pin' # fan_pin ]_vars

IsMotionMsg(m, occ) == m.event = "motion" /\ m.occupied = Some(occ)
Published(occ) == \E i \in 1..Len(outbox) : IsMotionMsg(outbox[i], occ)

\* C5: SmartHomeMonitor publishes no occupied=0 event and does not leave the
\* active motion state in a cycle stamped less than MOTION_COOLDOWN seconds after
\* the stamp of the last transition to active.
C5_NoStopInsideCooldown ==
    [][ ( \/ (last_motion_state = HIGH /\ last_motion_state' = LOW)
          \/ (~Published(0) /\ Published(0)') )
          => ts' - last_motion_time' >= MOTION_COOLDOWN
      ]_vars

\* C5's case: a stop has been published, the motion state is inactive again
C5_Witness ==
    prog = "monitor" /\ Published(0) /\ last_motion_state = LOW /\ m_pc = "control"

\* C7: an exception of publish_data never propagates into its caller.
C7_PublishFailureContained == exc # "PubNubException"

ReadingPublished == \E i \in 1..Len(outbox) : outbox[i].event = "dht22_reading"

\* C8: a failed sensor read costs only its own cycle: in every cycle in which
\* the DHT22 that was set up at construction answers with valid values, a
\* reading event is published.
C8_ReadFailureCostsOneCycle ==
    (prog = "monitor" /\ m_pc = "pir" /\ dht_inited /\ dht_hw = "ok")
        => ReadingPublished

\* C6: while the PIR level stays HIGH, one occupied=1 event is published for
\* that HIGH period and no more.
C6_OneStartPerHighPeriod == starts_in_high <= 1

\* C9: a call of cleanup() raises nothing and leaves the fan, buzzer and LED
\* outputs off, also when cleanup() was called before.
C9_CleanupTwice ==
    (prog = "hw" /\ hw_op = "cleanup")
        => (exc = None /\ fan_pin = LOW /\ buzzer_pin = LOW /\ led_pin = LOW)

\* C11: a timed buzzer activation does not hold its caller for the duration:
\* while the buzzer sounds and the caller is still inside the activating call,
\* the duration has not elapsed.
C11_BuzzerOffWithoutBlocking ==
    (prog = "motion" /\ s_pc = "beep" /\ buzzer_pin = HIGH) => now < s_wake

\* C19: a process that ended on a failed hardware initialisation has attempted
\* the cleanup and has a non-zero exit status; one that ended on an interrupt
\* has exit status 0.
C19_ExitCodes ==
    (prog = "motion" /\ s_pc = "done")
        => /\ exc = "RuntimeError" => (cleaned /\ exit_status # Some(EXIT_OK))
           /\ exc = "KeyboardInterrupt" => exit_status = Some(EXIT_OK)

\* C12: a call of control_fan_based_on_temp that follows a manual
\* set_fan_state, with no time elapsed since, changes neither fan_state nor the
\* fan output.
C12_ManualFanSurvivesPolicy ==
    [][ (prog = "hw" /\ hw_op = "set_fan_state" /\ exc = None
            /\ hw_op' = "control_fan_based_on_temp")
          => (fan_state' = fan_state /\ fan_pin' = fan_pin)
      ]_vars

PirStep ==
    prog = "monitor" /\ m_pc = "pir" /\ m_pc' # "pir" /\ exc' # "KeyboardInterrupt"

\* C14: on a LOW sample taken in the active motion state, the state becomes
\* inactive and an occupied=0 event is published exactly when the time since
\* the last transition to active is at least the cooldown.
C14_StopAtCooldown ==
    [][ (PirStep /\ PirInput = LOW /\ last_motion_state = HIGH)
          => ((last_motion_state' = LOW /\ Published(0)')
                <=> ts - last_motion_time >= MOTION_COOLDOWN)
      ]_vars

\* the motion events published in the cycle so far
MotionEvents == {i \in 1..Len(outbox) : outbox[i].event = "motion"}

\* the PIR sample of the cycle stamped ts has been handled
SampleHandled(k) ==
    prog = "monitor" /\ m_pc \in {"control", "sleep"} /\ SampleNo(ts) = k

\* C15: with samples 1 s apart showing LOW, HIGH, HIGH, LOW, LOW, ..., sample 2
\* publishes one occupied=1 event, sample 4 publishes nothing, sample 5 (3 s
\* after the rising edge) publishes one occupied=0 event, and no other sample
\* publishes a motion event.
C15_DebounceScenario ==
    /\ SampleHandled(2) => (Published(1) /\ Cardinality(MotionEvents) = 1)
    /\ SampleHandled(4) => MotionEvents = {}
    /\ SampleHandled(5) => (Published(0) /\ Cardinality(MotionEvents) = 1)
    /\ \A k \in {1, 3, 6, 7, 8} : SampleHandled(k) => MotionEvents = {}

\* C15's case: the cycle of sample 5 has published the stop
C15_Witness == SampleHandled(5) /\ Published(0) /\ last_motion_state = LOW

\* the DHT22 was polled in this cycle and returned None
AbsentReading == prog = "monitor" /\ dht_device /\ dht_hw = "none"

\* C16: the rest of a cycle whose poll returned an absent reading handles no
\* motion sample, publishes nothing and writes no actuator.
C16_AbsentReadingSkipsCycle ==
    [][ (AbsentReading /\ m_pc \in {"pir", "control"})
          => UNCHANGED <<motion_detected, last_motion_state, last_motion_time, outbox,
                         fan_pin, buzzer_pin, led_pin>>
      ]_vars

\* C18: a monitor whose DHT22 driver was not available at construction still has
\* a source of readings: every cycle publishes a reading event.
C18_SimulatedSourceAlways ==
    (prog = "monitor" /\ ~dht_inited /\ m_pc \in {"pir", "control", "sleep"})
        => ReadingPublished

\* the output a command names has the level it names
CommandedLevelSet(cmd) ==
    /\ cmd \in FanOnCmds => fan_pin = HIGH
    /\ cmd \in FanOffCmds => fan_pin = LOW
    /\ cmd \in BuzzerOnCmds => buzzer_pin = HIGH
    /\ cmd \in BuzzerOffCmds => buzzer_pin = LOW

\* C17: handle_command stamps LAST_MANUAL with the current time, switches
\* AUTO_MODE off, and its own last step, in which the loop does nothing, leaves
\* the commanded output at the commanded level.
C17_CommandAppliedInCallback ==
    [][ prog = "listener" =>
          /\ (h_pc = "stamp" /\ h_pc' = "pause") => LAST_MANUAL' = now'
          /\ (h_pc = "pause" /\ h_pc' = "dispatch") => ~AUTO_MODE'
          /\ (h_pc = "dispatch" /\ h_pc' = "idle" /\ h_cmd \in Vocabulary)
                => (CommandedLevelSet(h_cmd)' /\ UNCHANGED <<l_pc, l_wake, auto_strobe>>)
      ]_vars

\* C17's case: fan_on was handled to its end while the loop slept, and the fan
\* is on before the loop wakes
C17_Witness ==
    /\ prog = "listener" /\ h_pc = "idle" /\ h_cmd \in FanOnCmds
    /\ l_pc = "sleep" /\ now < l_wake /\ LAST_MANUAL = now
    /\ ~AUTO_MODE /\ fan_pin = HIGH

\* the reading events handed to publish_data in the cycle so far
ReadingEvents ==
    {i \in 1..Len(outbox) : outbox[i].event \in {"dht22_reading", "ThermoTrack_snapshot"}}

\* C20: a cycle whose poll returned a valid reading has, when it goes to sleep,
\* published exactly one reading event, and that event carries the cycle's
\* temperature and humidity.
C20_OneReadingEventPerCycle ==
    /\ (prog = "logger" /\ g_pc = "sleep" /\ g_answer = "ok")
          => /\ Cardinality(ReadingEvents) = 1
             /\ \A i \in ReadingEvents :
                   /\ outbox[i].temperature_c = Some(Round2(Val(t_c)))
                   /\ outbox[i].humidity = Some(Round2(Val(h)))
    /\ (prog = "monitor" /\ m_pc = "sleep" /\ temp_c # NoValue /\ humidity # NoValue)
          => /\ Cardinality(ReadingEvents) = 1
             /\ \A i \in ReadingEvents :
                   /\ outbox[i].temperature_c = Some(Round2(Val(temp_c)))
                   /\ outbox[i].humidity = Some(Round2(Val(humidity)))

\* C21: a loop that has published occupied=1 for a motion start and, with the
\* cooldown elapsed, samples the motion level LOW publishes an occupied=0 event
\* for that stop.
C21_StopPublishedAfterCooldown ==
    [][ (prog = "motion" /\ s_pc = "poll" /\ Published(1) /\ pir = LOW
            /\ s_pc' = "idle")
          => Published(0)'
      ]_vars

\* no thread is inside set_buzzer_state, buzzer_beep or _buzzer_off
NoBuzzerOperation ==
    /\ \A r \in Requests : r_pc[r] = "idle"
    /\ \A t \in 1..Len(timers) : timers[t] \notin {"fired", "off_out"}

\* C22: the timer's turn-off and the manual buzzer commands, on their threads,
\* never leave the record and the output apart: whenever no buzzer operation is
\* in progress, buzzer_state is true exactly when the buzzer output is HIGH.
C22_BuzzerStateMatchesOutput ==
    (prog = "threads" /\ c_pc = "idle" /\ NoBuzzerOperation)
        => (buzzer_state <=> buzzer_pin = HIGH)

\* C23: a reading whose temperature is absent changes neither the fan state nor
\* the fan output under any of the automatic policies; it is not taken for a
\* value below the threshold.
C23_AbsentTemperatureLeavesFan ==
    [][ (prog = "readings" /\ pol_reading' = NoValue)
          => (fan_pin' = fan_pin /\ fan_state' = fan_state)
      ]_vars

\* C23's case: the fan is on and the reading applied last had no temperature
C23_Witness ==
    prog = "readings" /\ pol_impl = "monitor" /\ pol_reading = NoValue /\ fan_pin = HIGH

\* C24: the LED is on in every cycle in which the motion state is still active:
\* once _control_actuators has run in a cycle that leaves last_motion_state
\* HIGH (a LOW sample inside the cooldown included), the LED output is HIGH.
C24_LedOnWhileActive ==
    (prog = "monitor" /\ m_pc = "sleep" /\ last_motion_state = HIGH)
        => led_pin = HIGH

\* C25: every reading event a control loop publishes is dispatched by
\* SensorSubscriber.message to a handler that stores a reading row; none is
\* dropped as an unknown event type.
C25_ReadingEventsDispatched ==
    prog = "logger" =>
        \A i \in 1..Len(outbox) : SubscriberHandler(outbox[i]) # None

\* C26: no sequence of delete_user and update_user_role requests lets a session
\* whose role is technician delete an account that held the admin or technician
\* role before the sequence started (the role its own session was logged in
\* with).
C26_TechnicianCannotDeleteStaff ==
    prog = "web" =>
        \A u \in Users :
            deleted_by[u] = "technician" => session_role[u] \notin {"admin", "technician"}

\* C27: a request from a session whose role is user or viewer changes neither
\* fan_state nor fan_auto_mode of the hardware controller.
C27_FanChangedByStaffOnly ==
    [][ (prog = "web" /\ web_req'.role \in {"user", "viewer"})
          => UNCHANGED <<fan_state, fan_auto_mode>>
      ]_vars

\* C28: between the operations of HardwareController, the fan_state that
\* get_status reports is the level last written to the fan output.
C28_StatusMatchesFanOutput ==
    prog = "hw" => (get_status(HwSelf).fan_state <=> fan_pin = HIGH)

\* a step hands a motion event with this occupied value to publish_data
PublishesMotion(occ) ==
    /\ Len(outbox') = Len(outbox) + 1
    /\ IsMotionMsg(outbox'[Len(outbox')], occ)

\* C29: the motion events SmartHomeMonitor.run publishes alternate, starting
\* with occupied=1: an event with occupied=1 follows no event or an event with
\* occupied=0, an event with occupied=0 follows an event with occupied=1.
C29_MotionEventsAlternate ==
    [][ prog = "monitor" =>
          /\ PublishesMotion(1) => last_occupied \in {NoValue, Some(0)}
          /\ PublishesMotion(0) => last_occupied = Some(1)
      ]_vars

\* C29's case: a stop has been published after a start, and the PIR is HIGH
\* again for the next sample
C29_Witness ==
    prog = "monitor" /\ m_pc = "sleep" /\ last_occupied = Some(0) /\ pir = HIGH

\* C30: once cleanup() has released the GPIO, the timer thread makes no
\* GPIO.output call: under every interleaving of cleanup() with the timer
\* thread, the turn-off write of _buzzer_off does not come after the release.
C30_NoTimerWriteAfterRelease ==
    [][ (prog = "threads" /\ cleaned)
          => ~(\E t \in 1..Len(timers) : timers[t] = "off_out" /\ timers'[t] = "dead")
      ]_vars

\* C10: however a control process ends, its GPIO cleanup has run before.
C10_CleanupOnEveryExit == ProcessEnded => cleaned
====
